---- MODULE Spec2Model ----
(***************************************************************************)
(* Model of src/src/nnetwork/gradval.rs: a scalar reverse-mode autodiff    *)
(* engine.  Nodes (Gv) live in Rc<RefCell<..>> cells; a node's identity is *)
(* its index in the sequences val/grad/op (creation order).  The backward  *)
(* pass is modelled one recursive call per step, with the RefCell borrows  *)
(* that the call stack holds.                                              *)
(*                                                                         *)
(* f32 values are abstracted:                                              *)
(*   <<"f", n>>  the value is exactly the integer n (|n| <= 2^24, where    *)
(*               every integer is an f32; -0.0 and 0.0 are both <<"f",0>>, *)
(*               they compare equal in the code)                           *)
(*   <<"nz", 0>> a finite, nonzero f32 that is not tracked                 *)
(*   <<"any",0>> an f32 that is not tracked (possibly 0, inf or NaN)       *)
(***************************************************************************)
EXTENDS Integers, Sequences, FiniteSets

\* ---------------------------------------------------------------- bounds
\* the cells and the cloned handles a run makes
MaxObjects == 3
LeafValues == {0, 2}

\* 2^24: every integer of at most this magnitude is an f32
ExactLimit == 2^24
\* |x| <= ExpSafe: exp(x) neither overflows nor underflows in f32
ExpSafe == 80

\* ---------------------------------------------------------------- f32
F(n) == <<"f", n>>
NZ == <<"nz", 0>>
ANY == <<"any", 0>>
IsF(x) == x[1] = "f"
Abs(n) == IF n < 0 THEN -n ELSE n

\* an integer result of exact operands, rounded when it leaves the exact range
Round(n) == IF Abs(n) <= ExactLimit THEN F(n) ELSE NZ

FNeg(x) == IF IsF(x) THEN F(-x[2]) ELSE x

FAdd(x, y) ==
    IF x = F(0) THEN y
    ELSE IF y = F(0) THEN x
    ELSE IF IsF(x) /\ IsF(y) THEN Round(x[2] + y[2])
    ELSE ANY

FSub(x, y) ==
    IF y = F(0) THEN x
    ELSE IF IsF(x) /\ IsF(y) THEN Round(x[2] - y[2])
    ELSE IF x = F(0) THEN FNeg(y)
    ELSE ANY

FMul(x, y) ==
    IF x = F(1) THEN y
    ELSE IF y = F(1) THEN x
    ELSE IF IsF(x) /\ IsF(y)
         THEN IF x[2] = 0 \/ y[2] = 0 THEN F(0)
              ELSE IF Abs(x[2]) <= ExactLimit \div Abs(y[2])
                   THEN F(x[2] * y[2]) ELSE NZ
    ELSE IF (x = F(0) /\ y = NZ) \/ (x = NZ /\ y = F(0)) THEN F(0)
    ELSE ANY

FDiv(x, y) ==
    IF y = F(1) THEN x
    ELSE IF IsF(x) /\ IsF(y)
         THEN IF y[2] = 0 THEN ANY
              ELSE IF x[2] % Abs(y[2]) = 0
                   THEN F((x[2] \div Abs(y[2])) * (IF y[2] < 0 THEN -1 ELSE 1))
                   ELSE NZ
    ELSE IF x = F(0) /\ y = NZ THEN F(0)
    ELSE ANY

FExp(x) ==
    IF x = F(0) THEN F(1)
    ELSE IF IsF(x) /\ Abs(x[2]) <= ExpSafe THEN NZ
    ELSE ANY

FLn(x) ==
    IF x = F(1) THEN F(0)
    ELSE IF IsF(x) /\ x[2] >= 2 THEN NZ
    ELSE ANY

\* acc * b^e for integers, |b| >= 2, e >= 0; 0 when it leaves the exact range
RECURSIVE PowAcc(_, _, _)
PowAcc(b, e, acc) ==
    IF e = 0 THEN acc
    ELSE IF Abs(acc) <= ExactLimit \div Abs(b) THEN PowAcc(b, e - 1, acc * b)
    ELSE 0

\* b^e for integers, e >= 0; 0 when the result would leave the exact range
IntPow(b, e) ==
    IF e = 0 THEN 1
    ELSE IF b = 0 THEN 0
    ELSE IF b = 1 THEN 1
    ELSE IF b = -1 THEN (IF e % 2 = 0 THEN 1 ELSE -1)
    ELSE PowAcc(b, e, 1)

FPowf(x, y) ==
    IF y = F(0) THEN F(1)
    ELSE IF x = F(1) THEN F(1)
    ELSE IF IsF(x) /\ IsF(y)
         THEN IF y[2] > 0
              THEN IF x[2] = 0 THEN F(0)
                   ELSE IF IntPow(x[2], y[2]) # 0 THEN F(IntPow(x[2], y[2]))
                   ELSE ANY
              ELSE IF x[2] = 0 THEN ANY
                   ELSE IF Abs(IntPow(x[2], -y[2])) = 1 THEN F(IntPow(x[2], -y[2]))
                   ELSE IF IntPow(x[2], -y[2]) # 0 THEN NZ
                   ELSE ANY
    ELSE ANY

IsZero_unchecked(x) == {FALSE}
\* the outcomes of `x == 0.`
IsZero(x) ==
    IF IsF(x) THEN {x[2] = 0}
    ELSE IF x = NZ THEN {FALSE}
    ELSE {TRUE, FALSE}

\* ---------------------------------------------------------------- data
VARIABLES
    gv,      \* the Gv cells, in creation order: [val, grad, op]
    hnd,     \* hnd[n]: the number of GradVal handles that hold cell n
    pc,      \* "idle", "reset", "calc", "div_panic", "borrow_panic"
    stack,   \* the active calls of the running traversal, outermost first
    root,    \* the cell backward() was last called on, 0 before any call
    reached, \* the cells reachable from some root backward() was called on
    fault    \* the cell a panic was raised on, 0 while there was none

vars == <<gv, hnd, pc, stack, root, reached, fault>>

None == <<>>
Some(x) == <<x>>

Noop == [tag |-> "Noop", a |-> 0, b |-> 0]
Unary(t, a) == [tag |-> t, a |-> a, b |-> 0]
Binary(t, a, b) == [tag |-> t, a |-> a, b |-> b]
UnaryTags == {"Neg", "Exp", "Log"}
BinaryTags == {"Pow", "Add", "Sub", "Mul", "Div"}

Nodes == 1..Len(gv)
Handles == {n \in Nodes : hnd[n] > 0}

Gv_from_op_stale(v, o) == [val |-> v, grad |-> Some(F(1)), op |-> o]
\* Gv::from_op
Gv_from_op(v, o) == [val |-> v, grad |-> None, op |-> o]
\* From<f32> for Gv
Gv_from(v) == [val |-> v, grad |-> None, op |-> Noop]

\* the antecedents an operation holds
Antecedents(o) ==
    IF o.tag \in UnaryTags THEN {o.a}
    ELSE IF o.tag \in BinaryTags THEN {o.a, o.b}
    ELSE {}

RECURSIVE Reach(_, _)
Reach(g, n) == {n} \cup UNION {Reach(g, c) : c \in Antecedents(g[n].op)}

\* ---------------------------------------------------------------- constructors
NewHandle_clearing(cell) ==
    /\ gv' = Append([n \in Nodes |-> [gv[n] EXCEPT !.grad = None]], cell)
    /\ hnd' = Append(hnd, 1)
    /\ UNCHANGED <<pc, stack, root, reached, fault>>

\* Rc::new(RefCell::new(cell)) wrapped in a new GradVal
NewHandle(cell) ==
    /\ gv' = Append(gv, cell)
    /\ hnd' = Append(hnd, 1)
    /\ UNCHANGED <<pc, stack, root, reached, fault>>

\* the handles made by clone() so far
RECURSIVE Clones(_)
Clones(h) == IF h = <<>> THEN 0
             ELSE (IF Head(h) > 1 THEN Head(h) - 1 ELSE 0) + Clones(Tail(h))

\* the run is between calls and may still make k objects
CanBuild(k) == pc = "idle" /\ Len(gv) + Clones(hnd) + k <= MaxObjects

FromF32(v) ==
    NewHandle(Gv_from(F(v)))

NegOp(x) ==
    NewHandle(Gv_from_op(FNeg(gv[x].val), Unary("Neg", x)))

AddOp(x, y) ==
    NewHandle(Gv_from_op(FAdd(gv[x].val, gv[y].val), Binary("Add", x, y)))

SubOp(x, y) ==
    NewHandle(Gv_from_op(FSub(gv[x].val, gv[y].val), Binary("Sub", x, y)))

MulOp(x, y) ==
    NewHandle(Gv_from_op(FMul(gv[x].val, gv[y].val), Binary("Mul", x, y)))

DivOp(x, y) ==
    /\ pc = "idle"
    /\ \E zero \in IsZero(gv[y].val) :
          IF zero
          THEN /\ pc' = "div_panic"
               /\ fault' = y
               /\ UNCHANGED <<gv, hnd, stack, root, reached>>
          ELSE /\ CanBuild(1)
               /\ NewHandle(Gv_from_op(FDiv(gv[x].val, gv[y].val), Binary("Div", x, y)))

ExpOp(x) ==
    NewHandle(Gv_from_op(FExp(gv[x].val), Unary("Exp", x)))

LogOp(x) ==
    NewHandle(Gv_from_op(FLn(gv[x].val), Unary("Log", x)))

PowOp(x, y) ==
    NewHandle(Gv_from_op(FPowf(gv[x].val, gv[y].val), Binary("Pow", x, y)))

\* powf: the exponent becomes a leaf whose handle is dropped on return
PowfOp(x, e) ==
    /\ LET other == Len(gv) + 1
       IN /\ gv' = gv \o << Gv_from(F(e)),
                            Gv_from_op(FPowf(gv[x].val, F(e)), Binary("Pow", x, other)) >>
          /\ hnd' = hnd \o <<0, 1>>
    /\ UNCHANGED <<pc, stack, root, reached, fault>>

\* #[derive(Clone)] for GradVal: a second handle on the same cell
CloneOp(x) ==
    /\ hnd' = [hnd EXCEPT ![x] = @ + 1]
    /\ UNCHANGED <<gv, pc, stack, root, reached, fault>>

\* GradVal::grad
GradOf(n) == gv[n].grad
\* From<&GradVal> for f32
ValueOf(n) == gv[n].val

\* ---------------------------------------------------------------- backward
Frame(n, g) == [node |-> n, g |-> g, next |-> 1]

ResetGrad_keep(g, n) == g
\* reset_grad_recursively: self._grad = None
ResetGrad(g, n) == [g EXCEPT ![n].grad = None]

ResetChildren_first(o) ==
    IF o.tag \in UnaryTags \cup BinaryTags THEN <<o.a>> ELSE <<>>
\* reset_grad_recursively: the antecedents it recurses into, in order
ResetChildren(o) ==
    IF o.tag \in UnaryTags THEN <<o.a>>
    ELSE IF o.tag \in BinaryTags THEN <<o.a, o.b>>
    ELSE <<>>

Accumulate_overwrite(g, n, x) == [g EXCEPT ![n].grad = Some(x)]
\* calc_grad_recursively: self._grad = Some(self._grad or 0. + grad)
Accumulate(g, n, x) ==
    [g EXCEPT ![n].grad = Some(FAdd(IF @ = None THEN F(0) ELSE @[1], x))]

CalcChildren_first(o) ==
    IF o.tag \in UnaryTags \cup BinaryTags THEN <<o.a>> ELSE <<>>
\* calc_grad_recursively: the antecedents it recurses into, in order
CalcChildren(o) ==
    IF o.tag \in UnaryTags THEN <<o.a>>
    ELSE IF o.tag \in BinaryTags THEN <<o.a, o.b>>
    ELSE <<>>

\* the gradient each arm passes to antecedent i (1: a, 2: b)
NegGrad(grad) == FNeg(grad)
ExpGrad(a_val, grad) == FMul(FExp(a_val), grad)
LogGrad(a_val, grad) == FMul(FDiv(F(1), a_val), grad)
PowGrad(i, a_val, b_val, grad) ==
    IF i = 1
    THEN FMul(FMul(b_val, FPowf(a_val, FSub(b_val, F(1)))), grad)
    ELSE FMul(FMul(FLn(a_val), FPowf(a_val, b_val)), grad)
AddGrad_sub(i, grad) == IF i = 1 THEN grad ELSE FNeg(grad)
AddGrad(i, grad) == grad
SubGrad(i, grad) == IF i = 1 THEN grad ELSE FNeg(grad)
MulGrad(i, a_val, b_val, grad) ==
    IF i = 1 THEN FMul(grad, b_val) ELSE FMul(grad, a_val)
DivGrad(i, a_val, b_val, grad) ==
    IF i = 1
    THEN FDiv(grad, b_val)
    ELSE FMul(FDiv(FNeg(a_val), FMul(b_val, b_val)), grad)

\* the gradient calc_grad_recursively passes to antecedent i of cell n
ChildGrad(g, n, i, grad) ==
    LET o == g[n].op
        a_val == g[o.a].val
        b_val == g[o.b].val
    IN CASE o.tag = "Neg" -> NegGrad(grad)
         [] o.tag = "Exp" -> ExpGrad(a_val, grad)
         [] o.tag = "Log" -> LogGrad(a_val, grad)
         [] o.tag = "Pow" -> PowGrad(i, a_val, b_val, grad)
         [] o.tag = "Add" -> AddGrad(i, grad)
         [] o.tag = "Sub" -> SubGrad(i, grad)
         [] o.tag = "Mul" -> MulGrad(i, a_val, b_val, grad)
         [] o.tag = "Div" -> DivGrad(i, a_val, b_val, grad)

\* cells whose RefMut is alive: the root's and one per active call
MutBorrowed(st) == {st[i].node : i \in 1..Len(st)}

\* cells whose Ref is alive: the Mul arm reads the other operand's value in
\* the argument of the call, and that temporary lives until the call returns
SharedBorrowed(g, st) ==
    {IF st[i].next = 2 THEN g[st[i].node].op.b ELSE g[st[i].node].op.a :
        i \in {j \in 1..(Len(st) - 1) : g[st[j].node].op.tag = "Mul"}}

\* the cell the Mul arm reads through borrow() in the argument of its call of
\* antecedent i, after that antecedent's borrow_mut()
ArgReads(o, i) ==
    IF o.tag = "Mul" THEN {IF i = 1 THEN o.b ELSE o.a} ELSE {}

\* the cell on which the call of antecedent c (number i of the top frame's
\* cell) panics with BorrowMutError or BorrowError; 0 when it does not
BorrowFault(g, st, c, i, phase) ==
    LET o == g[st[Len(st)].node].op
        shared == IF phase = "calc" THEN SharedBorrowed(g, st) ELSE {}
        reads == IF phase = "calc" THEN ArgReads(o, i) ELSE {}
    IN IF c \in MutBorrowed(st) \cup shared THEN c
       ELSE IF reads \cap (MutBorrowed(st) \cup {c}) # {}
            THEN CHOOSE d \in reads : TRUE
            ELSE 0

\* returns: drop the calls that have no antecedent left to visit
RECURSIVE Unwind(_, _, _)
Unwind(g, st, phase) ==
    IF st = <<>> THEN st
    ELSE LET o == g[st[Len(st)].node].op
             kids == IF phase = "calc" THEN CalcChildren(o) ELSE ResetChildren(o)
         IN IF st[Len(st)].next > Len(kids)
            THEN Unwind(g, SubSeq(st, 1, Len(st) - 1), phase)
            ELSE st

\* the top frame calls its next antecedent c
Call(g, st, c, x, phase) ==
    Unwind(g, Append([st EXCEPT ![Len(st)].next = @ + 1], Frame(c, x)), phase)

\* backward(), first statement: reset_grad_recursively on the root
Backward(r) ==
    /\ pc = "idle"
    /\ gv' = ResetGrad(gv, r)
    /\ stack' = Unwind(gv, <<Frame(r, F(0))>>, "reset")
    /\ pc' = "reset"
    /\ root' = r
    /\ reached' = reached \cup Reach(gv, r)
    /\ UNCHANGED <<hnd, fault>>

\* one recursive call of reset_grad_recursively
ResetStep ==
    /\ pc = "reset"
    /\ stack # <<>>
    /\ LET top == stack[Len(stack)]
           c == ResetChildren(gv[top.node].op)[top.next]
           f == BorrowFault(gv, stack, c, top.next, "reset")
       IN IF f = 0
          THEN /\ gv' = ResetGrad(gv, c)
               /\ stack' = Call(gv, stack, c, F(0), "reset")
               /\ pc' = "reset"
               /\ UNCHANGED fault
          ELSE /\ pc' = "borrow_panic"
               /\ fault' = f
               /\ UNCHANGED <<gv, stack>>
    /\ UNCHANGED <<hnd, root, reached>>

\* backward(), second statement: calc_grad_recursively(1.) on the root
BeginCalc ==
    /\ pc = "reset"
    /\ stack = <<>>
    /\ gv' = Accumulate(gv, root, F(1))
    /\ stack' = Unwind(gv, <<Frame(root, F(1))>>, "calc")
    /\ pc' = IF stack' = <<>> THEN "idle" ELSE "calc"
    /\ UNCHANGED <<hnd, root, reached, fault>>

\* one recursive call of calc_grad_recursively
CalcStep ==
    /\ pc = "calc"
    /\ LET top == stack[Len(stack)]
           c == CalcChildren(gv[top.node].op)[top.next]
           x == ChildGrad(gv, top.node, top.next, top.g)
           f == BorrowFault(gv, stack, c, top.next, "calc")
       IN IF f = 0
          THEN /\ gv' = Accumulate(gv, c, x)
               /\ stack' = Call(gv, stack, c, x, "calc")
               /\ pc' = IF stack' = <<>> THEN "idle" ELSE "calc"
               /\ UNCHANGED fault
          ELSE /\ pc' = "borrow_panic"
               /\ fault' = f
               /\ UNCHANGED <<gv, stack>>
    /\ UNCHANGED <<hnd, root, reached>>

\* ---------------------------------------------------------------- system
Init ==
    /\ gv = <<>>
    /\ hnd = <<>>
    /\ pc = "idle"
    /\ stack = <<>>
    /\ root = 0
    /\ reached = {}
    /\ fault = 0

Build ==
    \/ CanBuild(1) /\ \E v \in LeafValues : FromF32(v)
    \/ CanBuild(1) /\ \E x \in Handles : NegOp(x)
    \/ CanBuild(1) /\ \E x, y \in Handles : AddOp(x, y)
    \/ CanBuild(1) /\ \E x, y \in Handles : SubOp(x, y)
    \/ CanBuild(1) /\ \E x, y \in Handles : MulOp(x, y)
    \/ pc = "idle" /\ \E x, y \in Handles : DivOp(x, y)
    \/ CanBuild(1) /\ \E x \in Handles : ExpOp(x)
    \/ CanBuild(1) /\ \E x \in Handles : LogOp(x)
    \/ CanBuild(1) /\ \E x, y \in Handles : PowOp(x, y)
    \/ CanBuild(2) /\ \E x \in Handles, e \in LeafValues : PowfOp(x, e)
    \/ CanBuild(1) /\ \E x \in Handles : CloneOp(x)

Differentiate ==
    \/ pc = "idle" /\ \E r \in Handles : Backward(r)
    \/ ResetStep
    \/ BeginCalc
    \/ CalcStep

Next == Build \/ Differentiate

Spec == Init /\ [][Next]_vars

\* ---------------------------------------------------------------- properties
Grads(g) == [n \in 1..Len(g) |-> g[n].grad]

\* a backward() call on the current root has returned
Returned == pc = "idle" /\ root # 0

\* the reset traversal of the current call has returned, the accumulation
\* has not begun
ResetDone == pc = "reset" /\ stack = <<>>

\* the step belongs to a backward() call
BackwardStep == pc \in {"reset", "calc"} \/ (pc = "idle" /\ pc' = "reset")

\* the whole recursion of calc_grad_recursively(x) on cell n, borrows aside
RECURSIVE CalcRec(_, _, _)
CalcRec(g, n, x) ==
    LET g1 == Accumulate(g, n, x)
        c == CalcChildren(g[n].op)
    IN IF Len(c) = 0 THEN g1
       ELSE IF Len(c) = 1 THEN CalcRec(g1, c[1], ChildGrad(g, n, 1, x))
       ELSE CalcRec(CalcRec(g1, c[1], ChildGrad(g, n, 1, x)),
                    c[2], ChildGrad(g, n, 2, x))

\* the grads backward() on r leaves when no backward() ran before it
FirstBackward(r) ==
    Grads(CalcRec([n \in Nodes |-> [gv[n] EXCEPT !.grad = None]], r, F(1)))

\* the gradient factor of the table for antecedent i of cell m
Factor(g, m, i) ==
    LET o == g[m].op
    IN CASE o.tag = "Neg" -> -1
         [] o.tag = "Add" -> 1
         [] o.tag = "Sub" -> IF i = 1 THEN 1 ELSE -1
         [] o.tag = "Mul" -> IF i = 1 THEN g[o.b].val[2] ELSE g[o.a].val[2]

\* the sum over the antecedent-link paths from r to n of the product of the
\* factors along the path
RECURSIVE PathSum(_, _, _)
PathSum(g, r, n) ==
    LET o == g[r].op
    IN IF r = n THEN 1
       ELSE IF o.tag \in UnaryTags THEN Factor(g, r, 1) * PathSum(g, o.a, n)
       ELSE IF o.tag \in BinaryTags
            THEN Factor(g, r, 1) * PathSum(g, o.a, n)
                 + Factor(g, r, 2) * PathSum(g, o.b, n)
       ELSE 0

\* the graph under r is built from neg, add, sub and mul on exact values,
\* and every binary operation in it has two distinct operands
Arithmetic(g, r) ==
    \A n \in Reach(g, r) :
        /\ g[n].op.tag \in {"Noop", "Neg", "Add", "Sub", "Mul"}
        /\ g[n].op.tag \in BinaryTags => g[n].op.a # g[n].op.b
        /\ IsF(g[n].val)

\* C1: for a leaf x, after y = x * x and y.backward(), the call has completed
\* and x.grad() == 2.0 * x.value().
C1_SquareOfSharedNode ==
    \A y \in Nodes :
        ( /\ root = y
          /\ pc \in {"idle", "borrow_panic"}
          /\ gv[y].op.tag = "Mul"
          /\ gv[y].op.a = gv[y].op.b
          /\ gv[gv[y].op.a].op = Noop )
        => /\ pc = "idle"
           /\ GradOf(gv[y].op.a) = Some(FMul(F(2), ValueOf(gv[y].op.a)))

\* C2: after R.backward() on a graph of neg, add, sub and mul whose binary
\* operations have distinct operands, the call has returned and every cell
\* reachable from R holds the sum over the paths from R of the products of
\* the gradient factors.
C2_PathSumGradient ==
    (root # 0 /\ pc \in {"idle", "borrow_panic"} /\ Arithmetic(gv, root))
    => /\ pc = "idle"
       /\ \A n \in Reach(gv, root) : GradOf(n) = Some(F(PathSum(gv, root, n)))

\* What the code does give for C2: the path sums whenever the call returns.
PathSumWhenReturned ==
    (Returned /\ Arithmetic(gv, root))
    => \A n \in Reach(gv, root) : GradOf(n) = Some(F(PathSum(gv, root, n)))

\* C3: whatever backward() calls came before, the grads a returned
\* R.backward() leaves on the cells reachable from R are the grads it leaves
\* when it is the first backward() call.
C3_HistoryIndependent ==
    Returned => \A n \in Reach(gv, root) : GradOf(n) = FirstBackward(root)[n]

\* C3 witness: an earlier call on another root left a gradient on a cell
\* outside the current root's graph, and the two graphs share a cell.
C3_Witness ==
    /\ Returned
    /\ \E m \in Nodes \ Reach(gv, root) :
          /\ GradOf(m) # None
          /\ Reach(gv, m) \cap Reach(gv, root) # {}
          /\ \E n \in Reach(gv, m) \cap Reach(gv, root) :
                GradOf(n) # Some(F(1)) /\ GradOf(n) # None

\* C4 as claimed: each backward() call clears the grad of every cell of the
\* graph before it accumulates, so after the call only cells reachable from
\* its root hold a gradient.
C4_EveryNodeCleared ==
    /\ ResetDone => \A n \in Nodes : GradOf(n) = None
    /\ Returned => \A n \in Nodes : GradOf(n) # None => n \in Reach(gv, root)

\* C4 amended: each backward() call clears the grad of every cell reachable
\* from its root before it accumulates; the cells not reachable from its root
\* keep their grad through the whole call.
C4_ReachableCleared ==
    /\ [](ResetDone => \A n \in Reach(gv, root) : GradOf(n) = None)
    /\ [][BackwardStep =>
            \A n \in Nodes \ Reach(gv, root') : gv'[n].grad = gv[n].grad]_vars

\* C4 witness: the reset of a call has finished, a cell outside the root's
\* graph still holds the gradient of an earlier call, and a cell both calls
\* reach has been cleared.
C4_Witness ==
    /\ ResetDone
    /\ \E m \in Nodes \ Reach(gv, root) :
          /\ GradOf(m) # None
          /\ Reach(gv, m) \cap Reach(gv, root) # {}

\* C5: grad() is None on every cell that was never reachable from a root
\* backward() was called on (so on every cell while backward() never ran).
C5_UnreachedHasNoGrad ==
    \A n \in Nodes : n \notin reached => GradOf(n) = None

\* C5 witness: an operation result made after a backward() call, from an
\* operand that holds a gradient.
C5_Witness ==
    \E n \in Nodes \ reached :
        /\ GradOf(n) = None
        /\ \E a \in Antecedents(gv[n].op) : GradOf(a) # None

\* C6: div aborts only on a divisor whose value is zero, and then leaves
\* every cell and handle as it was; a Div cell is only ever made from a divisor
\* whose value is not zero, with origin Div(a, b) on the operands' cells; and
\* on a nonzero divisor the call that returns the Div cell is possible.
C6_DivAbortsOnZeroOnly ==
    /\ [][ /\ (pc' = "div_panic" /\ pc # "div_panic")
              => /\ pc = "idle"
                 /\ gv' = gv /\ hnd' = hnd
                 /\ fault' \in Handles
                 /\ gv[fault'].val \in {F(0), ANY}
           /\ \A n \in (1..Len(gv')) \ Nodes :
                 gv'[n].op.tag = "Div"
                 => /\ pc' = "idle"
                    /\ gv[gv'[n].op.b].val # F(0)
                    /\ gv'[n].val = FDiv(gv[gv'[n].op.a].val, gv[gv'[n].op.b].val)
         ]_vars
    /\ [](\A x, y \in Handles :
            (CanBuild(1) /\ gv[y].val \notin {F(0), ANY})
            => ENABLED (DivOp(x, y) /\ pc' = "idle"
                        /\ gv'[Len(gv')].op = Binary("Div", x, y)))

\* C6 witness: one division has returned a Div cell and a later one, by a
\* zero divisor, has aborted.
C6_Witness ==
    /\ pc = "div_panic"
    /\ gv[fault].val = F(0)
    /\ \E n \in Nodes : gv[n].op.tag = "Div"

\* C7: no step changes the value or the origin of an existing cell or removes
\* a cell; a step of backward() adds no cell; and only a step of backward()
\* changes the grad of an existing cell.
C7_OnlyBackwardWritesGrad ==
    [][ /\ Len(gv') >= Len(gv)
        /\ \A n \in Nodes : gv'[n].val = gv[n].val /\ gv'[n].op = gv[n].op
        /\ BackwardStep => Len(gv') = Len(gv)
        /\ (\E n \in Nodes : gv'[n].grad # gv[n].grad) => BackwardStep
      ]_vars

\* C7 witness: after a backward() call that left gradients, an operation
\* made a new cell from a cell holding a gradient, and a handle of a cell
\* holding a gradient was cloned.
C7_Witness ==
    /\ pc = "idle"
    /\ \E n \in Nodes :
          /\ n \notin reached
          /\ \E a \in Antecedents(gv[n].op) : GradOf(a) # None
    /\ \E m \in Nodes : hnd[m] > 1 /\ GradOf(m) # None

Independent(g, z) ==
    /\ g[z].op.a # g[z].op.b
    /\ g[z].op.a \notin Reach(g, g[z].op.b)
    /\ g[z].op.b \notin Reach(g, g[z].op.a)

C9_ResetBeforeAccumulate ==
    /\ [][(pc = "reset" /\ stack # <<>>)
            => \A n \in Nodes : gv'[n].grad \in {gv[n].grad, None}]_vars
    /\ [](ResetDone => \A n \in Reach(gv, root) : GradOf(n) = None)
    /\ [][(pc = "calc" \/ ResetDone)
            => \A n \in Nodes : gv'[n].grad = None => gv[n].grad = None]_vars
    /\ [](Returned => \A n \in Reach(gv, root) : GradOf(n) # None)

\* C9 witness: a call has returned on a root whose graph has a cell reached
\* along two paths, after an earlier call had left gradients.
C9_Witness ==
    /\ Returned
    /\ gv[root].op.tag \in BinaryTags
    /\ \E m \in Nodes \ Reach(gv, root) : GradOf(m) # None
    /\ \E n \in Reach(gv, root) : GradOf(n) \notin {None, Some(F(1))}

\* every operation's antecedents are cells made before it
Acyclic == \A n \in Nodes : \A a \in Antecedents(gv[n].op) : a < n

\* no cell is twice on the path of the running traversal
PathDistinct ==
    \A i, j \in 1..Len(stack) : i # j => stack[i].node # stack[j].node

\* C10: every constructible graph is acyclic, a cell is on the traversal path
\* at most once, and backward() runs both traversals to completion.
C10_BackwardCompletes ==
    /\ Acyclic
    /\ PathDistinct
    /\ pc # "borrow_panic"

\* What the code does give for C10: acyclic graphs and simple paths.
AcyclicAndSimplePaths == Acyclic /\ PathDistinct

====
